---- MODULE Spec2Model ----
(***************************************************************************)
(* Model of hbp-results, src/utils/utils.py: the curation classifier       *)
(* (generate_curation_report), the error-tag tally (generate_error_types), *)
(* the report driver (generate_curation_summary) and the row translator    *)
(* (process_row under get_sheets_graph).                                   *)
(*                                                                         *)
(* A spreadsheet cell is a Python value, modelled as [t, v]: its type name *)
(* and its text as a sequence of one-character strings.  An empty cell is  *)
(* delivered by pandas.read_excel as the float NaN.                        *)
(***************************************************************************)
EXTENDS Integers, Sequences, FiniteSets, TLC

VARIABLES
    entry,              \* the routine that was called from outside
    pc,                 \* position of the running routine
    exc,                \* the exception that left the entry routine, or "none"
    sheet,              \* number of spreadsheets read so far (index of the current path)
    rows_read,          \* rows consumed in this run, over all sheets
    columns,            \* df.columns of the spreadsheet being scanned
    line,               \* rows consumed from the current df (index of the next row)
    row,                \* the row the last loop iteration received
    branch,             \* the branch the last loop iteration took
    bel,                \* process_row: the statement string it last assembled
    curation_results,   \* generate_curation_report: the defaultdict(int)
    schema_log,         \* logger.warning calls of _check_curation_template_columns
    conflict_log,       \* logger.warning('Conflict in row ...') calls
    seen,               \* history: what kinds of rows the reader delivered
    failed,             \* history: rows on which process_row raised
    error_types,        \* generate_error_types: the defaultdict(int)
    curator,            \* generate_error_types: the local variable curator
    summary_excel_rows, \* generate_curation_summary: per sheet, its summary
    error_excel_rows,   \* generate_curation_summary: per sheet, its error types
    control_parser,     \* bel_parser.control_parser: citation, evidence, annotations
    graph,              \* statements the parser added to the BELGraph
    warnings            \* graph.warnings

vars == << entry, pc, exc, sheet, rows_read, columns, line, row, branch, bel,
           curation_results, schema_log, conflict_log, seen, failed, error_types,
           curator, summary_excel_rows, error_excel_rows, control_parser, graph, warnings >>

\* ------------------------------------------------------------------ bounds

\* Rows the sheet reader delivers in one run, over all spreadsheets.
MaxRows == 2
\* Spreadsheets get_enrichment_directories yields in one run.
MaxSheets == 2

\* ----------------------------------------------------------- Python values

Str(s) == [t |-> "str", v |-> s]
NaN == [t |-> "float", v |-> <<"n", "a", "n">>]
None == [t |-> "NoneType", v |-> <<"N", "o", "n", "e">>]
\* a cell holding the text x, the curators' mark
X == Str(<<"x">>)
\* a cell holding the number 0
ZERO == [t |-> "int", v |-> <<"0">>]

\* a local variable that has not been assigned
Unbound == [t |-> "unbound", v |-> << >>]

\* pandas.isnull / pandas.notnull of a scalar
isnull(c) == c = NaN \/ c = None
notnull(c) == ~isnull(c)

\* Python truth value: bool(c).  NaN is a non-zero float, hence true.
truthy(c) ==
    CASE c.t = "str" -> Len(c.v) > 0
      [] c.t = "int" -> c.v # <<"0">>
      [] c.t = "float" -> c.v # <<"0", ".", "0">>
      [] OTHER -> FALSE

\* Python str(c)
str(c) == c.v

\* c == 'text' for a str literal
eq_str(c, text) == c.t = "str" /\ c.v = text

\* defaultdict(int)
EmptyDict == [k \in {} |-> 0]
Get(d, k) == IF k \in DOMAIN d THEN d[k] ELSE 0
Incr(d, k) == IF k \in DOMAIN d THEN [d EXCEPT ![k] = @ + 1] ELSE d @@ (k :> 1)

RECURSIVE SumOver(_, _)
SumOver(d, keys) ==
    IF keys = {} THEN 0
    ELSE LET k == CHOOSE x \in keys : TRUE IN Get(d, k) + SumOver(d, keys \ {k})

\* ---------------------------------------------------------------- constants

NOT_CURATED == "Not curated"
ERROR == "Error"
CORRECT == "Correct"
ERROR_BUT_ALSO_OTHER_STATEMENT == "Error but other statement was identified"
MODIFIED_BY_CURATOR == "Modified by curator"
TOTAL == "Total"

Buckets == {NOT_CURATED, ERROR, CORRECT, ERROR_BUT_ALSO_OTHER_STATEMENT, MODIFIED_BY_CURATOR}

\* 'No evidence text.'
NO_EVIDENCE_TEXT ==
    <<"N", "o", " ", "e", "v", "i", "d", "e", "n", "c", "e", " ", "t", "e", "x", "t", ".">>

ACT_BP_PREFIX == <<"a", "c", "t", "(", "b", "p", "(">>

RequiredColumns == {"Curator", "Checked", "Correct", "Changed"}

\* ------------------------------------------------------------------ inputs

\* What a flag cell can hold: nothing, the curator's mark, or a zero.
FlagCells == {NaN, X, ZERO}

\* Evidence cells: the sentinel, the sentinel without its full stop, an
\* evidence sentence, an empty cell.
EvidenceCells ==
    { Str(NO_EVIDENCE_TEXT),
      Str(SubSeq(NO_EVIDENCE_TEXT, 1, Len(NO_EVIDENCE_TEXT) - 1)),
      Str(<<"e", "v">>),
      NaN }

\* df.columns: the full template, the template with one required column
\* missing, and the template without its reference columns.
AllColumns == RequiredColumns \cup {"Citation Reference", "PMID"}
ColumnSets ==
    {AllColumns} \cup {AllColumns \ {c} : c \in RequiredColumns}
        \cup {AllColumns \ {"Citation Reference"}, AllColumns \ {"Citation Reference", "PMID"}}

\* ----------------------------------------- _check_curation_template_columns

check_curation_template_columns(cols) ==
    IF "Curator" \notin cols THEN FALSE
    ELSE IF "Checked" \notin cols THEN FALSE
    ELSE IF "Correct" \notin cols THEN FALSE
    ELSE IF "Changed" \notin cols THEN FALSE
    ELSE TRUE

\* ------------------------------------------------- generate_curation_report

\* The rows df.iterrows() can deliver to generate_curation_report: the
\* columns its loop body reads.
ReportRows ==
    [Checked : FlagCells, Correct : FlagCells, Changed : FlagCells,
     Evidence : EvidenceCells]

NoRow == [Checked |-> NaN, Correct |-> NaN, Changed |-> NaN, Evidence |-> NaN]

SKIP == "Skip"
CONFLICT == "Conflict"

\* variant: the comparison matches on the sentinel's text up to its full stop
is_skipped_prefix(evidence) ==
    /\ evidence.t = "str"
    /\ Len(evidence.v) >= Len(NO_EVIDENCE_TEXT) - 1
    /\ SubSeq(evidence.v, 1, Len(NO_EVIDENCE_TEXT) - 1)
         = SubSeq(NO_EVIDENCE_TEXT, 1, Len(NO_EVIDENCE_TEXT) - 1)

\* if evidence == 'No evidence text.': continue
is_skipped(evidence) == eq_str(evidence, NO_EVIDENCE_TEXT)

\* variant: the Conflict test placed before the Modified test
classify_conflict_first(checked, correct, changed) ==
    IF ~(checked \/ correct \/ changed) THEN NOT_CURATED
    ELSE IF checked /\ ~(correct \/ changed) THEN ERROR
    ELSE IF correct /\ ~changed THEN CORRECT
    ELSE IF changed /\ correct THEN CONFLICT
    ELSE IF checked /\ changed THEN MODIFIED_BY_CURATOR
    ELSE IF changed THEN ERROR_BUT_ALSO_OTHER_STATEMENT
    ELSE "none"

\* variant: an unchecked row is Not curated whatever its other flags
classify_unchecked_first(checked, correct, changed) ==
    IF ~checked THEN NOT_CURATED
    ELSE IF checked /\ ~(correct \/ changed) THEN ERROR
    ELSE IF correct /\ ~changed THEN CORRECT
    ELSE IF checked /\ changed THEN MODIFIED_BY_CURATOR
    ELSE IF changed /\ correct THEN CONFLICT
    ELSE IF changed THEN ERROR_BUT_ALSO_OTHER_STATEMENT
    ELSE "none"

\* the if/elif chain over the three flags; "none" when no branch is taken
classify(checked, correct, changed) ==
    IF ~(checked \/ correct \/ changed) THEN NOT_CURATED
    ELSE IF checked /\ ~(correct \/ changed) THEN ERROR
    ELSE IF correct /\ ~changed THEN CORRECT
    ELSE IF checked /\ changed THEN MODIFIED_BY_CURATOR
    ELSE IF changed /\ correct THEN CONFLICT
    ELSE IF changed THEN ERROR_BUT_ALSO_OTHER_STATEMENT
    ELSE "none"

\* the branch one loop iteration takes for row r
report_branch(r) ==
    IF is_skipped(r.Evidence) THEN SKIP
    ELSE classify(notnull(r.Checked), notnull(r.Correct), notnull(r.Changed))

\* variant: Total incremented inside the bucket branches only
tally_in_branch(results, b) ==
    IF b = SKIP THEN results
    ELSE IF b \in Buckets THEN Incr(Incr(results, b), TOTAL)
    ELSE results

\* the counters after an iteration that took branch b
tally(results, b) ==
    IF b = SKIP THEN results
    ELSE IF b \in Buckets THEN Incr(Incr(results, b), TOTAL)
    ELSE Incr(results, TOTAL)

NoSeen == [not_sentinel |-> 0, conflict |-> 0]

\* history of the delivered rows, read off the cells alone
Observe(s, r) ==
    LET live == ~eq_str(r.Evidence, NO_EVIDENCE_TEXT) IN
    [not_sentinel |-> s.not_sentinel + (IF live THEN 1 ELSE 0),
     conflict |-> s.conflict
        + (IF live /\ isnull(r.Checked) /\ notnull(r.Correct) /\ notnull(r.Changed)
           THEN 1 ELSE 0)]

\* the rows one run may still consume
RowsLeft == rows_read < MaxRows

errVars == << error_types, curator >>
summaryVars == << summary_excel_rows, error_excel_rows >>
graphVars == << failed, bel, control_parser, graph, warnings >>

\* df = pd.read_excel(path); the header check; raise ValueError or start the loop
report_read_excel ==
    /\ pc = "report_read"
    /\ sheet < MaxSheets
    /\ \E cols \in ColumnSets :
        /\ columns' = cols
        /\ sheet' = sheet + 1
        /\ IF check_curation_template_columns(cols)
           THEN /\ pc' = "report_rows"
                /\ UNCHANGED << exc, schema_log >>
           ELSE /\ pc' = "raised"
                /\ exc' = "ValueError"
                /\ schema_log' = schema_log + 1
    /\ line' = 0
    /\ curation_results' = EmptyDict
    /\ seen' = NoSeen
    /\ UNCHANGED << entry, rows_read, row, branch, conflict_log >>
    /\ UNCHANGED << errVars, summaryVars, graphVars >>

\* one iteration of "for line, row in df.iterrows()"
report_iterrow ==
    /\ pc = "report_rows"
    /\ RowsLeft
    /\ \E r \in ReportRows :
        /\ row' = r
        /\ branch' = report_branch(r)
        /\ curation_results' = tally(curation_results, report_branch(r))
        /\ conflict_log' = conflict_log + (IF report_branch(r) = CONFLICT THEN 1 ELSE 0)
        /\ seen' = Observe(seen, r)
    /\ line' = line + 1
    /\ rows_read' = rows_read + 1
    /\ UNCHANGED << entry, pc, exc, sheet, columns, schema_log >>
    /\ UNCHANGED << errVars, summaryVars, graphVars >>

\* the df is exhausted: return curation_results
report_return ==
    /\ pc = "report_rows"
    /\ pc' = IF entry = "generate_curation_summary" THEN "error_types_rows" ELSE "done"
    /\ line' = IF entry = "generate_curation_summary" THEN 0 ELSE line
    /\ error_types' = EmptyDict
    /\ curator' = Unbound
    /\ UNCHANGED << entry, exc, sheet, rows_read, columns, row, branch,
                    curation_results, schema_log, conflict_log, seen >>
    /\ UNCHANGED << summaryVars, graphVars >>

InitCommon ==
    /\ exc = "none"
    /\ sheet = 0
    /\ rows_read = 0
    /\ columns = {}
    /\ line = 0
    /\ row = NoRow
    /\ branch = "none"
    /\ bel = << >>
    /\ curation_results = EmptyDict
    /\ schema_log = 0
    /\ conflict_log = 0
    /\ seen = NoSeen
    /\ failed = 0
    /\ error_types = EmptyDict
    /\ curator = Unbound
    /\ summary_excel_rows = << >>
    /\ error_excel_rows = << >>
    /\ control_parser = [citation |-> EmptyDict, evidence |-> None, annotation_dict |-> EmptyDict]
    /\ graph = {}
    /\ warnings = << >>

\* generate_curation_report(path) called on one spreadsheet
InitReport == entry = "generate_curation_report" /\ pc = "report_read" /\ InitCommon
NextReport == report_read_excel \/ report_iterrow \/ report_return
SpecReport == InitReport /\ [][NextReport]_vars

\* ----------------------------------------------------- generate_error_types

Whitespace == {" ", "\t", "\n"}

\* str.lower() on the letters the inputs use
lower_char(c) ==
    CASE c = "A" -> "a"
      [] c = "B" -> "b"
      [] OTHER -> c

lower(s) == [i \in 1..Len(s) |-> lower_char(s[i])]

\* str.strip(): drop leading and trailing whitespace
RECURSIVE lstrip(_)
lstrip(s) == IF Len(s) > 0 /\ s[1] \in Whitespace THEN lstrip(Tail(s)) ELSE s

RECURSIVE rstrip(_)
rstrip(s) ==
    IF Len(s) > 0 /\ s[Len(s)] \in Whitespace THEN rstrip(SubSeq(s, 1, Len(s) - 1)) ELSE s

strip(s) == rstrip(lstrip(s))

\* str.split(sep): the pieces between separators; one piece when there is none
RECURSIVE split(_, _)
split(s, sep) ==
    IF \E i \in 1..Len(s) : s[i] = sep
    THEN LET i == CHOOSE j \in 1..Len(s) : s[j] = sep /\ \A k \in 1..(j - 1) : s[k] # sep
         IN << SubSeq(s, 1, i - 1) >> \o split(SubSeq(s, i + 1, Len(s)), sep)
    ELSE << s >>

\* error_types[error.lower().strip()] += 1 for each piece
RECURSIVE count_pieces(_, _)
count_pieces(types, pieces) ==
    IF pieces = << >> THEN types
    ELSE count_pieces(Incr(types, strip(lower(Head(pieces)))), Tail(pieces))

\* variant: rows with the sentinel evidence are passed over
count_error_types_skipping(types, r) ==
    IF eq_str(r.Evidence, NO_EVIDENCE_TEXT) THEN types
    ELSE IF isnull(r.ErrorType) THEN types
    ELSE count_pieces(types, split(str(r.ErrorType), ","))

\* the loop body after the curator capture: the tally after row r
count_error_types(types, r) ==
    IF isnull(r.ErrorType) THEN types
    ELSE count_pieces(types, split(str(r.ErrorType), ","))

\* Error Type cells: empty, 'A', ' a ', 'a,B', 'B, a', 'a,' and the number 7
ErrorTypeCells ==
    { NaN,
      Str(<<"A">>),
      Str(<<" ", "a", " ">>),
      Str(<<"a", ",", "B">>),
      Str(<<"B", ",", " ", "a">>),
      Str(<<"a", ",">>),
      [t |-> "int", v |-> <<"7">>] }

CuratorCells == {Str(<<"c", "1">>), NaN}

\* The rows df.iterrows() can deliver to generate_error_types.
ErrorRows ==
    [Curator : CuratorCells, ErrorType : ErrorTypeCells,
     Evidence : {Str(NO_EVIDENCE_TEXT), Str(<<"e", "v">>)}]

\* one iteration of "for line, row in df.iterrows()"
error_types_iterrow ==
    /\ pc = "error_types_rows"
    /\ RowsLeft
    /\ \E r \in ErrorRows :
        /\ row' = r
        /\ curator' = IF line = 0 THEN r.Curator ELSE curator
        /\ error_types' = count_error_types(error_types, r)
    /\ line' = line + 1
    /\ rows_read' = rows_read + 1
    /\ UNCHANGED << entry, pc, exc, sheet, columns, branch, curation_results,
                    schema_log, conflict_log, seen >>
    /\ UNCHANGED << summaryVars, graphVars >>

\* the df is exhausted: return error_types, curator.  With no row at all
\* curator was never assigned and the return raises UnboundLocalError.  Under
\* generate_curation_summary the two results are stored under the sheet's key.
error_types_return ==
    /\ pc = "error_types_rows"
    /\ IF curator = Unbound
       THEN /\ pc' = "raised"
            /\ exc' = "UnboundLocalError"
            /\ UNCHANGED summaryVars
       ELSE /\ exc' = exc
            /\ IF entry = "generate_curation_summary"
               THEN /\ pc' = "report_read"
                    /\ error_excel_rows' = Append(error_excel_rows, error_types)
                    /\ summary_excel_rows' = Append(summary_excel_rows, curation_results)
               ELSE /\ pc' = "done"
                    /\ UNCHANGED summaryVars
    /\ UNCHANGED << entry, sheet, rows_read, columns, line, row, branch,
                    curation_results, schema_log, conflict_log, seen >>
    /\ UNCHANGED << errVars, graphVars >>

\* generate_error_types(path) called on one spreadsheet, its df loaded
InitErrorTypes ==
    /\ entry = "generate_error_types"
    /\ pc = "error_types_rows"
    /\ InitCommon
NextErrorTypes == error_types_iterrow \/ error_types_return
SpecErrorTypes == InitErrorTypes /\ [][NextErrorTypes]_vars

\* ------------------------------------------------ generate_curation_summary

SummaryColumns == Buckets \cup {TOTAL}

\* the paths are exhausted: build the two tables and select the summary's
\* columns.  DataFrame.from_dict(..., orient='index') has a column for every
\* key some sheet's dict holds; selecting a column it lacks raises KeyError.
summary_export ==
    /\ entry = "generate_curation_summary"
    /\ pc = "report_read"
    /\ IF \A k \in SummaryColumns :
            \E i \in 1..Len(summary_excel_rows) : k \in DOMAIN summary_excel_rows[i]
       THEN pc' = "done" /\ exc' = exc
       ELSE pc' = "raised" /\ exc' = "KeyError"
    /\ UNCHANGED << entry, sheet, rows_read, columns, line, row, branch,
                    curation_results, schema_log, conflict_log, seen >>
    /\ UNCHANGED << errVars, summaryVars, graphVars >>

InitSummary ==
    /\ entry = "generate_curation_summary"
    /\ pc = "report_read"
    /\ InitCommon
NextSummary ==
    \/ report_read_excel
    \/ report_iterrow
    \/ report_return
    \/ error_types_iterrow
    \/ error_types_return
    \/ summary_export
SpecSummary == InitSummary /\ [][NextSummary]_vars

\* ----------------------------------------------- claims on the error tally

ErrorRowStep == pc = "error_types_rows" /\ pc' = "error_types_rows" /\ line' = line + 1

\* C6 as stated: the tally counts exactly the non-skipped rows, so a row
\* whose evidence is the sentinel contributes to no tag.
C6_SentinelRowsUntagged ==
    [][(ErrorRowStep /\ eq_str(row'.Evidence, NO_EVIDENCE_TEXT)) =>
        error_types' = error_types]_vars

\* the tags each Error Type cell is expected to count, piece by piece
C6_Tags(cell) ==
    CASE cell = NaN -> << >>
      [] cell = Str(<<"A">>) -> << <<"a">> >>
      [] cell = Str(<<" ", "a", " ">>) -> << <<"a">> >>
      [] cell = Str(<<"a", ",", "B">>) -> << <<"a">>, <<"b">> >>
      [] cell = Str(<<"B", ",", " ", "a">>) -> << <<"b">>, <<"a">> >>
      [] cell = Str(<<"a", ",">>) -> << <<"a">>, << >> >>
      [] cell = [t |-> "int", v |-> <<"7">>] -> << <<"7">> >>

C6_Times(tags, k) == Cardinality({i \in 1..Len(tags) : tags[i] = k})

\* C6 amended: for every row whose errorType is non-null, whether or not its
\* evidence is the sentinel, each comma-separated piece, lower-cased and
\* trimmed, has its counter incremented by one; a row with null errorType
\* contributes to no tag.
C6_EveryTaggedRowCounted ==
    [][ErrorRowStep =>
        LET tags == C6_Tags(row'.ErrorType)
            keys == DOMAIN error_types \cup {tags[i] : i \in 1..Len(tags)}
        IN /\ DOMAIN error_types' = keys
           /\ \A k \in keys :
                error_types'[k] = Get(error_types, k) + C6_Times(tags, k)]_vars

\* a sentinel row tagged 'B, a' was counted after an ordinary row tagged ' a '
C6_Witness ==
    /\ entry = "generate_error_types"
    /\ line = 2
    /\ eq_str(row.Evidence, NO_EVIDENCE_TEXT)
    /\ row.ErrorType = Str(<<"B", ",", " ", "a">>)
    /\ Get(error_types, <<"a">>) = 2
    /\ Get(error_types, <<"b">>) = 1

\* ------------------------------------------------------------- process_row

\* pybel.constants
CITATION_TYPE == "type"
CITATION_REFERENCE == "reference"
CITATION_TYPE_PUBMED == "PubMed"

\* 'missing reference'
MISSING_REFERENCE ==
    <<"m", "i", "s", "s", "i", "n", "g", " ", "r", "e", "f", "e", "r", "e", "n", "c", "e">>
\* the argument of the KeyError of row['PMID']
KEY_PMID == <<"P", "M", "I", "D">>
\* 'act('
ACT_PREFIX == <<"a", "c", "t", "(">>

\* str.startswith(prefix)
startswith(s, prefix) ==
    Len(s) >= Len(prefix) /\ SubSeq(s, 1, Len(prefix)) = prefix

\* s[n:-1] of a non-empty s
slice_to_last(s, n) == SubSeq(s, n + 1, Len(s) - 1)

\* variant: the inner bp( layer dropped and the outer act( kept
fix_act_bp_keep_act(s) ==
    IF startswith(s, ACT_BP_PREFIX)
    THEN ACT_PREFIX \o slice_to_last(s, Len(ACT_BP_PREFIX))
    ELSE s

\* Fix ``act(bp`` tags: sub = sub[len('act('):-1] when it starts with the prefix
fix_act_bp(s) ==
    IF startswith(s, ACT_BP_PREFIX) THEN slice_to_last(s, Len(ACT_PREFIX)) ELSE s

\* f"{sub} {row['Predicate']} {obj}"
statement(sub, predicate, obj) == sub \o <<" ">> \o predicate \o <<" ">> \o obj

\* the unconverted reference cell: row['Citation Reference'] if the row has
\* that column, else row['PMID'] (a KeyError when that column is missing too)
reference_cell(r, cols) ==
    IF "Citation Reference" \in cols THEN r.CitationReference
    ELSE IF "PMID" \in cols THEN r.PMID
    ELSE Unbound

\* the context the row sets on bel_parser.control_parser
row_context(parser, r, reference) ==
    [citation |-> (CITATION_TYPE :> CITATION_TYPE_PUBMED
                    @@ CITATION_REFERENCE :> reference),
     evidence |-> r.Evidence,
     annotation_dict |->
        [k \in DOMAIN parser.annotation_dict \cup {"Curator", "INDRA_UUID", "Confidence"} |->
            CASE k = "Curator" -> {r.Curator}
              [] k = "INDRA_UUID" -> {r.INDRA_UUID}
              [] k = "Confidence" -> "Medium"
              [] OTHER -> parser.annotation_dict[k]]]

\* process_row(bel_parser, row) on a row of a df with columns cols, the
\* external parser accepting the statement or not.  Its result: the branch it
\* left by, the argument of the exception it raised, the statement it
\* assembled and the parser state it leaves.
process_row(parser, r, cols, accepts) ==
    LET quiet(b) == [branch |-> b, arg |-> << >>, bel |-> << >>, parser |-> parser]
        cell == reference_cell(r, cols)
        reference == str(cell)
        context == row_context(parser, r, reference)
        stmt == statement(fix_act_bp(str(r.Subject)), str(r.Predicate),
                          fix_act_bp(str(r.Object)))
    IN  IF ~truthy(r.Checked) THEN quiet("unchecked")
        ELSE IF ~(truthy(r.Correct) \/ truthy(r.Changed)) THEN quiet("neither")
        ELSE IF cell = Unbound
             THEN [branch |-> "KeyError", arg |-> KEY_PMID, bel |-> << >>, parser |-> parser]
        ELSE IF Len(reference) = 0
             THEN [branch |-> "missing reference", arg |-> MISSING_REFERENCE,
                   bel |-> << >>, parser |-> parser]
        ELSE IF accepts
             THEN [branch |-> "parsed", arg |-> << >>, bel |-> stmt, parser |-> context]
        ELSE [branch |-> "rejected", arg |-> stmt, bel |-> stmt, parser |-> context]

Returned == {"unchecked", "neither", "parsed"}
Raised == {"KeyError", "missing reference", "rejected"}

\* ---------------------------------------------------------- get_sheets_graph

\* 'act(bp(XYZ))'
ACT_BP_XYZ == <<"a", "c", "t", "(", "b", "p", "(", "X", "Y", "Z", ")", ")">>
\* 'act(p(Y))'
ACT_P_Y == <<"a", "c", "t", "(", "p", "(", "Y", ")", ")">>
\* 'p(Y)'
P_Y == <<"p", "(", "Y", ")">>

\* A fully curated row of the template.
BaseRow ==
    [Checked |-> X, Correct |-> X, Changed |-> NaN,
     CitationReference |-> Str(<<"1", "2">>),
     PMID |-> [t |-> "int", v |-> <<"3", "4">>],
     Subject |-> Str(P_Y), Predicate |-> Str(<<"-", ">">>), Object |-> Str(P_Y),
     Evidence |-> Str(<<"e", "v">>),
     Curator |-> Str(<<"c", "1">>),
     INDRA_UUID |-> Str(<<"u", "1">>)]

PMID_34 == [t |-> "int", v |-> <<"3", "4">>]

\* The rows df.iterrows() can deliver to process_row: the curated row with
\* its Checked cell empty, marked or zero and its Correct and Changed cells
\* marked one, both or neither (empty or zero); with its reference cells
\* empty, an empty text or an identifier; and with its terms wrapped or not.
GraphRows ==
    { [BaseRow EXCEPT !.Checked = a, !.Correct = bc[1], !.Changed = bc[2]] :
        a \in FlagCells,
        bc \in { <<X, NaN>>, <<NaN, X>>, <<X, X>>, <<NaN, NaN>>, <<ZERO, ZERO>> } }
    \cup
    { [BaseRow EXCEPT !.CitationReference = ab[1], !.PMID = ab[2]] :
        ab \in { <<NaN, PMID_34>>, <<NaN, NaN>>, <<Str(<< >>), PMID_34>>,
                 <<Str(<<"1", "2">>), NaN>> } }
    \cup
    { [BaseRow EXCEPT !.Subject = Str(ab[1]), !.Object = Str(ab[2])] :
        ab \in { <<ACT_BP_XYZ, P_Y>>, <<P_Y, ACT_BP_XYZ>>, <<ACT_P_Y, ACT_BP_XYZ>>,
                 <<ACT_P_Y, P_Y>> } }

\* variant: the entry written path first
handle_swapped(w, ln, path, res) ==
    IF res.branch \in Raised THEN Append(w, << path, ln, res.arg >>) ELSE w

\* except Exception as e: graph.warnings.append((line, path, e.args[0]))
handle(w, ln, path, res) ==
    IF res.branch \in Raised THEN Append(w, << ln, path, res.arg >>) ELSE w

\* df = pd.read_excel(path); a df that fails the header check is passed over
graph_read_excel ==
    /\ pc = "graph_paths"
    /\ sheet < MaxSheets
    /\ \E cols \in ColumnSets :
        /\ columns' = cols
        /\ IF check_curation_template_columns(cols)
           THEN pc' = "graph_rows" /\ schema_log' = schema_log
           ELSE pc' = "graph_paths" /\ schema_log' = schema_log + 1
    /\ sheet' = sheet + 1
    /\ line' = 0
    /\ UNCHANGED << entry, exc, rows_read, row, branch, curation_results,
                    conflict_log, seen >>
    /\ UNCHANGED << errVars, summaryVars, graphVars >>

\* one iteration of the row loop: process_row under try/except
graph_iterrow ==
    /\ pc = "graph_rows"
    /\ RowsLeft
    /\ \E r \in GraphRows, accepts \in BOOLEAN :
        LET res == process_row(control_parser, r, columns, accepts) IN
        /\ row' = r
        /\ branch' = res.branch
        /\ bel' = res.bel
        /\ control_parser' = res.parser
        /\ graph' = IF res.branch = "parsed"
                    THEN graph \cup {[bel |-> res.bel,
                                      reference |-> res.parser.citation[CITATION_REFERENCE]]}
                    ELSE graph
        /\ warnings' = handle(warnings, line, sheet, res)
        /\ failed' = failed + (IF res.branch \in Raised THEN 1 ELSE 0)
    /\ line' = line + 1
    /\ rows_read' = rows_read + 1
    /\ UNCHANGED << entry, pc, exc, sheet, columns, curation_results,
                    schema_log, conflict_log, seen >>
    /\ UNCHANGED << errVars, summaryVars >>

\* the df is exhausted: on to the next path
graph_next_path ==
    /\ pc = "graph_rows"
    /\ pc' = "graph_paths"
    /\ UNCHANGED << entry, exc, sheet, rows_read, columns, line, row, branch,
                    curation_results, schema_log, conflict_log, seen >>
    /\ UNCHANGED << errVars, summaryVars, graphVars >>

\* the paths are exhausted: to_pickle(graph, ...); return graph
graph_return ==
    /\ pc = "graph_paths"
    /\ pc' = "done"
    /\ UNCHANGED << entry, exc, sheet, rows_read, columns, line, row, branch,
                    curation_results, schema_log, conflict_log, seen >>
    /\ UNCHANGED << errVars, summaryVars, graphVars >>

\* get_sheets_graph() with no cached graph to load
InitGraph ==
    /\ entry = "get_sheets_graph"
    /\ pc = "graph_paths"
    /\ InitCommon
NextGraph == graph_read_excel \/ graph_iterrow \/ graph_next_path \/ graph_return
SpecGraph == InitGraph /\ [][NextGraph]_vars

\* ------------------------------------------- claims on the classification

\* a step in which generate_curation_report's loop consumed a row
ReportRowStep == pc = "report_rows" /\ pc' = "report_rows" /\ line' = line + 1

\* the outcome the rule list assigns to each of the eight flag combinations
C1_Table(checked, correct, changed) ==
    CASE ~checked /\ ~correct /\ ~changed -> NOT_CURATED
      [] checked /\ ~correct /\ ~changed -> ERROR
      [] checked /\ correct /\ ~changed -> CORRECT
      [] ~checked /\ correct /\ ~changed -> CORRECT
      [] checked /\ ~correct /\ changed -> MODIFIED_BY_CURATOR
      [] checked /\ correct /\ changed -> MODIFIED_BY_CURATOR
      [] ~checked /\ correct /\ changed -> CONFLICT
      [] ~checked /\ ~correct /\ changed -> ERROR_BUT_ALSO_OTHER_STATEMENT

C1_Outcome(r) == C1_Table(notnull(r.Checked), notnull(r.Correct), notnull(r.Changed))

\* C1: for each of the 8 flag combinations of a non-skipped row the loop takes
\* exactly the first matching rule of the fixed order; that outcome's bucket,
\* and no other bucket, grows by one, and Conflict is logged and grows no bucket.
C1_FirstMatchingRule ==
    [][(ReportRowStep /\ ~eq_str(row'.Evidence, NO_EVIDENCE_TEXT)) =>
        /\ branch' = C1_Outcome(row')
        /\ \A b \in Buckets :
              Get(curation_results', b)
                = Get(curation_results, b) + (IF b = C1_Outcome(row') THEN 1 ELSE 0)
        /\ conflict_log'
              = conflict_log + (IF C1_Outcome(row') = CONFLICT THEN 1 ELSE 0)]_vars

\* a row with all three flags set was counted as Modified by curator
C1_Witness ==
    /\ entry = "generate_curation_report"
    /\ branch = MODIFIED_BY_CURATOR
    /\ notnull(row.Checked) /\ notnull(row.Correct) /\ notnull(row.Changed)
    /\ Get(curation_results, MODIFIED_BY_CURATOR) >= 1

\* C2 as stated: every non-skipped row whose checked flag is false is
\* classified NotCurated, whatever its correct and changed flags.
C2_UncheckedAlwaysNotCurated ==
    (line > 0 /\ branch # SKIP /\ isnull(row.Checked)) => branch = NOT_CURATED

\* C2 amended: a non-skipped row whose checked flag is false is NotCurated
\* exactly when correct and changed are false too; otherwise it is Correct
\* (correct, not changed), Conflict (correct and changed) or
\* ErrorButOtherStatementIdentified (changed alone).
C2_UncheckedByOtherFlags ==
    (pc \in {"report_rows", "done"} /\ line > 0 /\ branch # SKIP /\ isnull(row.Checked)) =>
        /\ (isnull(row.Correct) /\ isnull(row.Changed)) => branch = NOT_CURATED
        /\ (notnull(row.Correct) /\ isnull(row.Changed)) => branch = CORRECT
        /\ (notnull(row.Correct) /\ notnull(row.Changed)) => branch = CONFLICT
        /\ (isnull(row.Correct) /\ notnull(row.Changed)) =>
                branch = ERROR_BUT_ALSO_OTHER_STATEMENT

\* an unchecked row with changed alone was counted in its bucket
C2_Witness ==
    /\ line > 0
    /\ isnull(row.Checked) /\ isnull(row.Correct) /\ notnull(row.Changed)
    /\ branch = ERROR_BUT_ALSO_OTHER_STATEMENT
    /\ Get(curation_results, ERROR_BUT_ALSO_OTHER_STATEMENT) >= 1

\* C4: Total is the number of rows whose evidence is not the sentinel, and
\* Total minus the five buckets is the number of non-skipped Conflict rows.
C4_TotalAccounting ==
    (pc \in {"report_rows", "done"}) =>
        /\ Get(curation_results, TOTAL) = seen.not_sentinel
        /\ Get(curation_results, TOTAL) - SumOver(curation_results, Buckets) = seen.conflict
        /\ Get(curation_results, TOTAL) >= SumOver(curation_results, Buckets)

\* the report returned after a Conflict row and a bucketed row
C4_Witness ==
    /\ entry = "generate_curation_report"
    /\ pc = "done"
    /\ seen.conflict >= 1
    /\ Get(curation_results, TOTAL) > seen.conflict
    /\ SumOver(curation_results, Buckets) >= 1

\* C5: a row whose evidence is exactly the sentinel changes no counter and
\* logs no Conflict, whatever its flags; a row with any other evidence is
\* never skipped: it increments Total.
C5_SentinelSkipped ==
    [][ReportRowStep =>
        IF eq_str(row'.Evidence, NO_EVIDENCE_TEXT)
        THEN curation_results' = curation_results /\ conflict_log' = conflict_log
        ELSE /\ branch' # SKIP
             /\ Get(curation_results', TOTAL) = Get(curation_results, TOTAL) + 1]_vars

\* a sentinel row with all flags set was skipped after a counted row
C5_Witness ==
    /\ entry = "generate_curation_report"
    /\ branch = SKIP
    /\ eq_str(row.Evidence, NO_EVIDENCE_TEXT)
    /\ notnull(row.Checked) /\ notnull(row.Correct) /\ notnull(row.Changed)
    /\ line >= 2
    /\ Get(curation_results, TOTAL) = line - 1

\* ----------------------------------------------- claims on the translator

\* a step in which get_sheets_graph's loop handed a row to process_row
GraphRowStep == pc = "graph_rows" /\ line' = line + 1

\* process_row went past its two eligibility tests on the last row
Translated ==
    entry = "get_sheets_graph" /\ line > 0 /\ branch \notin {"unchecked", "neither", "none"}

\* C3 as stated: a row is translated only if checked and (correct or changed),
\* each flag being true iff its cell is non-null, as the classifier derives it;
\* so a row whose statement was parsed into the graph has those flags.
C3_OnlyEligibleRowsTranslated ==
    (entry = "get_sheets_graph" /\ line > 0 /\ branch = "parsed") =>
        /\ notnull(row.Checked)
        /\ notnull(row.Correct) \/ notnull(row.Changed)

\* C7 as stated: a spreadsheet missing a required column is passed over and
\* no exception leaves the routine.
C7_SchemaErrorSkipsSheet ==
    (sheet > 0 /\ ~check_curation_template_columns(columns)) =>
        (pc # "raised" /\ exc = "none")

\* a field is absent or empty
C8_Absent(col, cell) == col \notin columns \/ isnull(cell) \/ Len(str(cell)) = 0

\* C8 as stated: the reference is the citation-reference field, or the PMID
\* field when that one is absent or empty; with both absent or empty the row
\* fails with 'missing reference' and is never parsed; otherwise the citation
\* is set to type PubMed with the resolved reference.  Stated for the sheets
\* that have a PMID column.
C8_ReferenceResolution ==
    (Translated /\ "PMID" \in columns) =>
        IF C8_Absent("Citation Reference", row.CitationReference) /\ C8_Absent("PMID", row.PMID)
        THEN branch = "missing reference"
        ELSE /\ branch \in {"parsed", "rejected"}
             /\ control_parser.citation =
                  (CITATION_TYPE :> CITATION_TYPE_PUBMED
                     @@ CITATION_REFERENCE :>
                          (IF C8_Absent("Citation Reference", row.CitationReference)
                           THEN str(row.PMID) ELSE str(row.CitationReference)))

\* 'act(XYZ)'
ACT_XYZ == <<"a", "c", "t", "(", "X", "Y", "Z", ")">>
\* 'bp(XYZ)'
BP_XYZ == <<"b", "p", "(", "X", "Y", "Z", ")">>

Assembled == entry = "get_sheets_graph" /\ branch \in {"parsed", "rejected"}

\* C9 as stated: 'act(bp(XYZ))' is rewritten to 'act(XYZ)' before the
\* statement is concatenated; other expressions are left unchanged.
C9_InnerBpStripped ==
    Assembled =>
        LET claimed(term) == IF term = ACT_BP_XYZ THEN ACT_XYZ ELSE term
        IN bel = statement(claimed(str(row.Subject)), str(row.Predicate),
                           claimed(str(row.Object)))

\* C9 amended: a subject or object 'act(bp(XYZ))' is rewritten to 'bp(XYZ)'
\* before the statement is concatenated: the outer 'act(' and the last
\* character are stripped and the inner 'bp(' layer is kept; an expression
\* that does not start with 'act(bp(' is left unchanged.
C9_OuterActStripped ==
    Assembled =>
        LET rewritten(term) ==
                CASE term = ACT_BP_XYZ -> BP_XYZ
                  [] term = ACT_P_Y -> ACT_P_Y
                  [] term = P_Y -> P_Y
        IN bel = statement(rewritten(str(row.Subject)), str(row.Predicate),
                           rewritten(str(row.Object)))

\* the statement 'bp(XYZ) -> p(Y)' was parsed from a row whose subject is wrapped
C9_Witness ==
    /\ branch = "parsed"
    /\ row.Subject = Str(ACT_BP_XYZ)
    /\ bel = BP_XYZ \o <<" ", "-", ">", " ">> \o P_Y
    /\ \E st \in graph : st.bel = bel

\* C10: no row failure aborts the scan; each failed row appends exactly one
\* entry (line, path, reason) to the warnings, a skipped or parsed row none,
\* the warnings are as many as the failed rows, in row order; for a parser
\* rejection the reason is the assembled statement.
C10_FailuresRecorded ==
    [][GraphRowStep =>
        /\ pc' = "graph_rows" /\ exc' = "none"
        /\ Len(warnings') = failed'
        /\ IF branch' \in Raised
           THEN warnings' = Append(warnings,
                    << line, sheet,
                       CASE branch' = "rejected" -> bel'
                         [] branch' = "missing reference" -> MISSING_REFERENCE
                         [] branch' = "KeyError" -> KEY_PMID >>)
           ELSE warnings' = warnings]_vars

\* a row was parsed after the parser rejected the row before it
C10_Witness ==
    /\ pc = "graph_rows"
    /\ line = 2
    /\ branch = "parsed"
    /\ failed = 1
    /\ warnings = << << 0, sheet, statement(P_Y, <<"-", ">">>, P_Y) >> >>
    /\ graph # {}

====
